---- MODULE Spec2Model ----
(***************************************************************************)
(* Model of set_wallpaper.py: a sun-position driven wallpaper blender.     *)
(*                                                                         *)
(* Spec        the whole program: init_images, then the control loop of    *)
(*             main (init_astral, get_current_images, blend_images,        *)
(*             update_wallpaper, sleep).  An exception that nothing        *)
(*             catches terminates the process (pc = "crashed").            *)
(* SpecInterp  get_current_images alone, called repeatedly on a clock      *)
(*             that moves forward, with its inputs drawn from bounded      *)
(*             sets.                                                       *)
(*                                                                         *)
(* Times are integers in one arbitrary unit; image_id, a float in the      *)
(* source, is modelled as the exact rational dusk_id * cursor / day_length *)
(* (numerator over day_length), so float rounding is not modelled.         *)
(* Python lists are 0-based, TLA+ sequences 1-based: PyIndex translates.   *)
(***************************************************************************)
EXTENDS Integers, Sequences, FiniteSets, TLC

VARIABLES
    pc,           \* position of the process
    folder,       \* args.folder: whether it exists and what os.listdir returns
    city,         \* args.city: "known" or "unknown" to Astral
    command,      \* args.command: "", "ok" (runs) or "noexe" (cannot be run)
    dusk_id,      \* args.dusk_id
    image_paths,  \* init_images: the sorted file names
    images,       \* init_images: the opened images, one handle per path
    sun,          \* environment: today's [dawn, len] as Astral would report
    dawn_time,    \* main: dawn_time of the current iteration
    day_length,   \* main: day_length of the current iteration
    now,          \* environment: the wall clock
    result,       \* last outcome of get_current_images
    prev,         \* SpecInterp: the call before the last one
    startup_log,  \* side effects of init_images, in order
    tick_steps,   \* steps of the current loop iteration, in order
    temp_file,    \* content of args.temp
    wallpaper,    \* what the desktop shows
    raised        \* the uncaught exception, if any

vars == <<pc, folder, city, command, dusk_id, image_paths, images, sun,
          dawn_time, day_length, now, result, prev, startup_log, tick_steps,
          temp_file, wallpaper, raised>>

----------------------------------------------------------------------------
(* Bounds *)

MaxFiles == 3      \* files in the folder
MaxDusk == 2       \* largest dusk_id of Spec
MaxClock == 2      \* last clock value of Spec
MaxSunLen == 2     \* longest day of Spec
MaxN == 4          \* longest image sequence of SpecInterp
MaxDay == 3        \* longest day of SpecInterp
MaxDawn == 2       \* latest dawn of SpecInterp
MaxNow == 9        \* last clock value of SpecInterp

----------------------------------------------------------------------------
(* File names: sequences of characters *)

Digits == <<"0", "1", "2", "3", "4", "5", "6", "7", "8", "9">>

IsDigit(c) == \E d \in 1..10 : Digits[d] = c

DigitValue(c) == (CHOOSE d \in 1..10 : Digits[d] = c) - 1

FileNames ==
    { <<"1", ".", "p", "n", "g">>,
      <<"0", "1", ".", "p", "n", "g">>,
      <<"2", ".", "j", "p", "g">>,
      <<"1", "0", ".", "j", "p", "e", "g">>,
      <<"a", ".", "p", "n", "g">>,
      <<"3", ".", "t", "x", "t">> }

\* a folder that does not exist: os.listdir raises FileNotFoundError
Missing == [exists |-> FALSE, files |-> <<>>]

Folder(l) == [exists |-> TRUE, files |-> l]

\* `pat in f` of Python strings
Contains(f, pat) ==
    \E i \in 1..(Len(f) - Len(pat) + 1) : SubSeq(f, i, i + Len(pat) - 1) = pat

IsImageName(f) ==
    \/ Contains(f, <<"j", "p", "e", "g">>)
    \/ Contains(f, <<"j", "p", "g">>)
    \/ Contains(f, <<"p", "n", "g">>)

\* re.sub(r'[^0-9]*', "", f)
StripNonDigits(f) == SelectSeq(f, IsDigit)

\* int(s) of a string of digits; int('') raises ValueError
RECURSIVE ParseInt(_)
ParseInt(s) ==
    IF Len(s) = 0 THEN 0
    ELSE 10 * ParseInt(SubSeq(s, 1, Len(s) - 1)) + DigitValue(s[Len(s)])

HasKey(f) == Len(StripNonDigits(f)) > 0

SortKey(f) == ParseInt(StripNonDigits(f))

\* list.sort(key=...): stable, ascending
RECURSIVE InsertByKey(_, _)
InsertByKey(sorted, f) ==
    IF Len(sorted) = 0 THEN <<f>>
    ELSE IF SortKey(sorted[Len(sorted)]) <= SortKey(f) THEN Append(sorted, f)
    ELSE Append(InsertByKey(SubSeq(sorted, 1, Len(sorted) - 1), f),
                sorted[Len(sorted)])

RECURSIVE SortByKey(_)
SortByKey(paths) ==
    IF Len(paths) = 0 THEN <<>>
    ELSE InsertByKey(SortByKey(SubSeq(paths, 1, Len(paths) - 1)),
                     paths[Len(paths)])

\* the directory listings: distinct names in any order
RECURSIVE ListingsOfLen(_)
ListingsOfLen(k) ==
    IF k = 0 THEN { <<>> }
    ELSE { Append(l, f) : l \in ListingsOfLen(k - 1), f \in FileNames }

NoRepeat(l) == \A i, j \in 1..Len(l) : l[i] = l[j] => i = j

Listings ==
    { l \in UNION { ListingsOfLen(k) : k \in 0..MaxFiles } : NoRepeat(l) }

----------------------------------------------------------------------------
(* Python list indexing *)

IndexError == "IndexError"

\* seq[i] of a Python list: negative i counts from the end
PyIndexOk(seq, i) == i >= -Len(seq) /\ i < Len(seq)

PyIndex(seq, i) == IF i >= 0 THEN i ELSE Len(seq) + i

\* rounds the half up instead of truncating it
MiddleIndex_RoundUp(n) == (n + 1) \div 2

\* int(len(image_paths)/2): true division, truncated
MiddleIndex(n) == n \div 2

----------------------------------------------------------------------------
(* get_current_images *)

\* math.floor(num / den) for den > 0
Floor(num, den) == num \div den

NoResult == [exc |-> "not called"]

\* cursor = (now - dawn_time).total_seconds()
Cursor(dawn, now_) == now_ - dawn

\* image_id = dusk_id * cursor / day_length, kept as the numerator over
\* day_length
ImageIdNum(dusk, cursor) == dusk * cursor

\* tests image_id > len(images) instead of len(images) - 1
OutOfRange_UpToLen(num, day, imgs) ==
    num < 1 * day \/ num > Len(imgs) * day

\* tests image_id < 0 instead of image_id < 1
OutOfRange_FromZero(num, day, imgs) ==
    num < 0 \/ num > (Len(imgs) - 1) * day

\* image_id < 1 or image_id > len(images) - 1
OutOfRange(num, day, imgs) ==
    num < 1 * day \/ num > (Len(imgs) - 1) * day

\* picks the image before the last one
LastIndex_OffByOne(imgs) == Len(imgs) - 2

\* len(images) - 1
LastIndex(imgs) == Len(imgs) - 1

\* forgets the + 1 of the second image
PlusOne_Forgotten(num, day) == num

\* the numerator of image_id + 1
PlusOne(num, day) == num + day

GetCurrentImages(dawn, day, imgs, dusk, now_) ==
    LET num == ImageIdNum(dusk, Cursor(dawn, now_))
        i1 == Floor(num, day)
        i2 == Floor(PlusOne(num, day), day)
        last == LastIndex(imgs)
    IN  IF OutOfRange(num, day, imgs)
        THEN IF PyIndexOk(imgs, last)
             THEN [exc |-> "none",
                   img1 |-> PyIndex(imgs, last),
                   img2 |-> PyIndex(imgs, last),
                   amount |-> <<1, 1>>]
             ELSE [exc |-> IndexError]
        ELSE IF PyIndexOk(imgs, i1) /\ PyIndexOk(imgs, i2)
             THEN [exc |-> "none",
                   img1 |-> PyIndex(imgs, i1),
                   img2 |-> PyIndex(imgs, i2),
                   amount |-> <<num - Floor(num, day) * day, day>>]
             ELSE [exc |-> IndexError]

----------------------------------------------------------------------------
(* The environment *)

NoException == [exc |-> "none", at |-> "none"]

Exception(e, at) == [exc |-> e, at |-> at]

\* what Astral reports for a day: dawn and dusk - dawn, the latter positive
Suns == [dawn : 0..1, len : 1..MaxSunLen]

\* os.path.join(folder, name)
PathJoin(name) == <<"folder", name>>

StartupPcs == {"init_images", "open_images"}

LoopPcs == {"init_astral", "get_current_images", "blend_images",
            "update_wallpaper", "sleep"}

----------------------------------------------------------------------------
(* The program *)

Init ==
    /\ pc = "init_images"
    /\ folder \in {Folder(l) : l \in Listings} \cup {Missing}
    /\ city \in {"known", "unknown"}
    /\ command \in {"", "ok", "noexe"}
    /\ dusk_id \in 0..MaxDusk
    /\ image_paths = <<>>
    /\ images = <<>>
    /\ sun \in Suns
    /\ dawn_time = 0
    /\ day_length = 0
    /\ now = 0
    /\ result = NoResult
    /\ prev = [cursor |-> 0, ret |-> NoResult]
    /\ startup_log = <<>>
    /\ tick_steps = <<>>
    /\ temp_file = <<>>
    /\ wallpaper = <<"unset">>
    /\ raised = NoException

Crash(e) ==
    /\ raised' = Exception(e, pc)
    /\ pc' = "crashed"

\* init_images, lines 29-38: list, filter, sort, set the initial wallpaper
InitImagesList ==
    /\ pc = "init_images"
    /\ UNCHANGED <<folder, city, command, dusk_id, images, sun, dawn_time,
                   day_length, now, result, prev, tick_steps, temp_file>>
    /\ IF ~folder.exists
       THEN /\ Crash("FileNotFoundError")
            /\ UNCHANGED <<image_paths, startup_log, wallpaper>>
       ELSE LET paths == SelectSeq(folder.files, IsImageName)
                sorted == SortByKey(paths)
                mid == MiddleIndex(Len(paths))
            IN  IF \E i \in 1..Len(paths) : ~HasKey(paths[i])
                THEN /\ Crash("ValueError")
                     /\ UNCHANGED <<image_paths, startup_log, wallpaper>>
                ELSE IF command = ""
                THEN /\ image_paths' = sorted
                     /\ pc' = "open_images"
                     /\ UNCHANGED <<startup_log, wallpaper, raised>>
                ELSE IF ~PyIndexOk(sorted, mid)
                THEN /\ Crash(IndexError)
                     /\ image_paths' = sorted
                     /\ UNCHANGED <<startup_log, wallpaper>>
                ELSE /\ image_paths' = sorted
                     /\ startup_log' =
                            Append(startup_log,
                                   [op |-> "update_wallpaper",
                                    path |-> PathJoin(sorted[PyIndex(sorted, mid) + 1])])
                     /\ IF command = "noexe"
                        THEN /\ Crash("FileNotFoundError")
                             /\ UNCHANGED wallpaper
                        ELSE /\ \E rc \in {0, 1} :
                                    wallpaper' = IF rc = 0 THEN <<"initial">>
                                                 ELSE wallpaper
                             /\ pc' = "open_images"
                             /\ UNCHANGED raised

\* init_images, lines 40-44: open and convert every image
InitImagesOpen ==
    /\ pc = "open_images"
    /\ UNCHANGED <<folder, city, command, dusk_id, image_paths, sun,
                   dawn_time, day_length, now, result, prev, tick_steps,
                   temp_file, wallpaper>>
    /\ \E ok \in BOOLEAN :
        IF ok
        THEN /\ images' = image_paths
             /\ startup_log' = Append(startup_log, [op |-> "open"])
             /\ pc' = "init_astral"
             /\ UNCHANGED raised
        ELSE /\ Len(image_paths) > 0
             /\ Crash("OSError")
             /\ UNCHANGED <<images, startup_log>>

\* computes the sun window in the first iteration only and reuses it after
InitAstral_Once ==
    /\ pc = "init_astral"
    /\ UNCHANGED <<folder, city, command, dusk_id, image_paths, images, sun,
                   now, result, prev, startup_log, temp_file, wallpaper>>
    /\ IF city = "unknown"
       THEN /\ Crash("KeyError")
            /\ UNCHANGED <<dawn_time, day_length, tick_steps>>
       ELSE \E ok \in BOOLEAN :
            IF ok
            THEN /\ dawn_time' = IF day_length = 0 THEN sun.dawn ELSE dawn_time
                 /\ day_length' = IF day_length = 0 THEN sun.len ELSE day_length
                 /\ tick_steps' = <<"init_astral">>
                 /\ pc' = "get_current_images"
                 /\ UNCHANGED raised
            ELSE /\ Crash("AstralError")
                 /\ UNCHANGED <<dawn_time, day_length, tick_steps>>

\* main, lines 110-113: init_astral(args.city)
InitAstral ==
    /\ pc = "init_astral"
    /\ UNCHANGED <<folder, city, command, dusk_id, image_paths, images, sun,
                   now, result, prev, startup_log, temp_file, wallpaper>>
    /\ IF city = "unknown"
       THEN /\ Crash("KeyError")
            /\ UNCHANGED <<dawn_time, day_length, tick_steps>>
       ELSE \E ok \in BOOLEAN :
            IF ok
            THEN /\ dawn_time' = sun.dawn
                 /\ day_length' = sun.len
                 /\ tick_steps' = <<"init_astral">>
                 /\ pc' = "get_current_images"
                 /\ UNCHANGED raised
            ELSE /\ Crash("AstralError")
                 /\ UNCHANGED <<dawn_time, day_length, tick_steps>>

\* main, line 116: get_current_images(dawn_time, day_length, images, dusk_id)
Interpolate ==
    /\ pc = "get_current_images"
    /\ UNCHANGED <<folder, city, command, dusk_id, image_paths, images, sun,
                   dawn_time, day_length, now, prev, startup_log, temp_file,
                   wallpaper>>
    /\ result' = GetCurrentImages(dawn_time, day_length, images, dusk_id, now)
    /\ IF result'.exc = "none"
       THEN /\ tick_steps' = Append(tick_steps, "get_current_images")
            /\ pc' = "blend_images"
            /\ UNCHANGED raised
       ELSE /\ Crash(result'.exc)
            /\ UNCHANGED tick_steps

\* main, lines 115-118: blend_images(img1, img2, amount, args.temp)
BlendImages ==
    /\ pc = "blend_images"
    /\ UNCHANGED <<folder, city, command, dusk_id, image_paths, images, sun,
                   dawn_time, day_length, now, result, prev, startup_log,
                   wallpaper>>
    /\ \E ok \in BOOLEAN :
        IF ok
        THEN /\ temp_file' = <<result.img1, result.img2, result.amount>>
             /\ tick_steps' = Append(tick_steps, "blend_images")
             /\ pc' = "update_wallpaper"
             /\ UNCHANGED raised
        ELSE /\ Crash("OSError")
             /\ UNCHANGED <<temp_file, tick_steps>>

\* main, line 119: update_wallpaper(args.command, args.temp)
UpdateWallpaper ==
    /\ pc = "update_wallpaper"
    /\ UNCHANGED <<folder, city, command, dusk_id, image_paths, images, sun,
                   dawn_time, day_length, now, result, prev, startup_log,
                   temp_file>>
    /\ IF command = ""
       THEN /\ Crash(IndexError)
            /\ UNCHANGED <<tick_steps, wallpaper>>
       ELSE /\ \E rc \in {0, 1} :
                wallpaper' = IF rc = 0 THEN <<"temp", temp_file>> ELSE wallpaper
            /\ tick_steps' = Append(tick_steps, "update_wallpaper")
            /\ pc' = "sleep"
            /\ UNCHANGED raised

\* main, line 120: sleep(60 * args.rate), args.rate >= 0; the day may change
Sleep ==
    /\ pc = "sleep"
    /\ UNCHANGED <<folder, city, command, dusk_id, image_paths, images,
                   dawn_time, day_length, result, prev, startup_log,
                   temp_file, wallpaper, raised>>
    /\ \E d \in 0..1 :
        /\ now + d <= MaxClock
        /\ now' = now + d
    /\ sun' \in Suns
    /\ tick_steps' = Append(tick_steps, "sleep")
    /\ pc' = "init_astral"

Next ==
    \/ InitImagesList
    \/ InitImagesOpen
    \/ InitAstral
    \/ Interpolate
    \/ BlendImages
    \/ UpdateWallpaper
    \/ Sleep

Spec == Init /\ [][Next]_vars

----------------------------------------------------------------------------
(* get_current_images on its own *)

\* the inputs of the contract: N >= 1 images, dusk_id in 0..N-1,
\* day_length > 0, any dawn, and the clock values of the calls
InterpInputs ==
    [n : 1..MaxN, dusk : 0..(MaxN - 1), day : 1..MaxDay, dawn : 0..MaxDawn]
    \cup { [n |-> 16, dusk |-> 13, day |-> 36000, dawn |-> 28800] }

\* the clock values of the calls: a grid, or for the 16-image set with dawn
\* at 08:00 and a 10 hour day: 00:00, 08:00, 12:00, 18:00 and 19:00
CallTimes ==
    IF day_length = 36000 THEN {0, 28800, 43200, 64800, 68400}
    ELSE 0..MaxNow

InitInterp ==
    /\ pc = "interp"
    /\ \E in \in InterpInputs :
        /\ in.dusk < in.n
        /\ images = [k \in 1..in.n |-> k - 1]
        /\ dusk_id = in.dusk
        /\ day_length = in.day
        /\ dawn_time = in.dawn
        /\ sun = [dawn |-> in.dawn, len |-> in.day]
    /\ now = 0
    /\ folder = Missing
    /\ city = "known"
    /\ command = ""
    /\ image_paths = <<>>
    /\ result = NoResult
    /\ prev = [cursor |-> 0, ret |-> NoResult]
    /\ startup_log = <<>>
    /\ tick_steps = <<>>
    /\ temp_file = <<>>
    /\ wallpaper = <<"unset">>
    /\ raised = NoException

\* one call of get_current_images; the clock never runs backwards
CallGetCurrentImages ==
    /\ pc = "interp"
    /\ \E t \in CallTimes :
        /\ t >= now
        /\ now' = t
        /\ result' = GetCurrentImages(dawn_time, day_length, images, dusk_id, t)
    /\ prev' = [cursor |-> Cursor(dawn_time, now), ret |-> result]
    /\ UNCHANGED <<pc, folder, city, command, dusk_id, image_paths, images,
                   sun, dawn_time, day_length, startup_log, tick_steps,
                   temp_file, wallpaper, raised>>

NextInterp == CallGetCurrentImages

SpecInterp == InitInterp /\ [][NextInterp]_vars

TypeOK == pc \in StartupPcs \cup LoopPcs \cup {"crashed", "interp"}

----------------------------------------------------------------------------
(* Properties of get_current_images, checked under SpecInterp *)

Called == result.exc # "not called"

Returned == result.exc = "none"

N == Len(images)

\* position * day_length of the last call, position = dusk_id * cursor /
\* day_length
PosNum == dusk_id * (now - dawn_time)

\* the result "last image twice, fraction 1"
IsLastImage(r) ==
    /\ r.exc = "none"
    /\ r.img1 = N - 1
    /\ r.img2 = N - 1
    /\ r.amount[1] = r.amount[2]

\* C1: for every time, day_length > 0, N >= 1 images and dusk_id in 0..N-1,
\* get_current_images returns without an error, both images are at indices
\* in 0..N-1 and the fraction is in [0, 1], the position N-1 included.
C1_AlwaysValidPair ==
    (Called /\ N >= 1 /\ dusk_id \in 0..(N - 1) /\ day_length > 0) =>
        /\ result.exc = "none"
        /\ result.img1 \in 0..(N - 1)
        /\ result.img2 \in 0..(N - 1)
        /\ 0 <= result.amount[1]
        /\ result.amount[1] <= result.amount[2]

\* C2 as stated: whenever position < 1 or position > N-2, the result is the
\* last image twice with fraction 1.
C2_ClampBeyondNMinus2 ==
    (Called /\ (PosNum < day_length \/ PosNum > (N - 2) * day_length)) =>
        IsLastImage(result)

\* C2 as amended: whenever position < 1 or position > N-1, the result is the
\* last image twice with fraction 1; with 16 images, dusk_id 13 and a day of
\* 36000 s, cursor 39600 s gives position 14.3, which is not beyond N-1, and
\* the result is images[14], images[15] with fraction 3/10.
C2_ClampBeyondNMinus1 ==
    /\ (Called /\ (PosNum < day_length \/ PosNum > (N - 1) * day_length)) =>
            IsLastImage(result)
    /\ (Called /\ N = 16 /\ dusk_id = 13 /\ day_length = 36000
            /\ now - dawn_time = 39600) =>
            /\ result.exc = "none"
            /\ result.img1 = 14
            /\ result.img2 = 15
            /\ 10 * result.amount[1] = 3 * result.amount[2]

C2_Witness ==
    /\ Called
    /\ N >= 3
    /\ PosNum > (N - 1) * day_length
    /\ IsLastImage(result)

\* C3: whenever 1 <= position <= N-2, the result is images[i], images[i+1]
\* and position - i with i = floor(position), so the fraction is in [0, 1)
\* and i+1 <= N-1; with 16 images, dusk_id 13, a day of 36000 s and cursor
\* 14400 s the result is images[5], images[6] and 1/5.
C3_InteriorPair ==
    /\ (Called /\ day_length <= PosNum /\ PosNum <= (N - 2) * day_length) =>
            /\ result.exc = "none"
            /\ \E i \in 0..(N - 1) :
                /\ i * day_length <= PosNum
                /\ PosNum < (i + 1) * day_length
                /\ result.img1 = i
                /\ result.img2 = i + 1
                /\ result.amount[1] = PosNum - i * day_length
                /\ result.amount[2] = day_length
            /\ result.img2 <= N - 1
            /\ 0 <= result.amount[1]
            /\ result.amount[1] < result.amount[2]
    /\ (Called /\ N = 16 /\ dusk_id = 13 /\ day_length = 36000
            /\ now - dawn_time = 14400) =>
            /\ result.exc = "none"
            /\ result.img1 = 5
            /\ result.img2 = 6
            /\ 5 * result.amount[1] = result.amount[2]

C3_Witness ==
    /\ Called
    /\ N = 16
    /\ dusk_id = 13
    /\ day_length = 36000
    /\ now - dawn_time = 14400
    /\ result.exc = "none"
    /\ result.img1 = 5

\* both of two successive calls, at cursors prev.cursor <= cursor, returned
BothReturned == prev.ret.exc = "none" /\ result.exc = "none"

----------------------------------------------------------------------------
(* Properties of the program, checked under Spec *)

\* the files of the folder that init_images takes for images
ImageFiles == SelectSeq(folder.files, IsImageName)

\* the process was terminated by an exception raised at one of the places
Crashed(places) == pc = "crashed" /\ raised.at \in places

\* C5: a failure inside one tick (the sun calculation, the render or save,
\* the set-wallpaper command) does not end the loop.
C5_TickFailureCaught ==
    ~(Crashed(LoopPcs) /\ raised.exc \in {"AstralError", "OSError"})

ConfigurationError ==
    \/ city = "unknown"
    \/ ~folder.exists
    \/ Len(ImageFiles) = 0

\* a statement of the loop body has run
LoopEntered ==
    \/ pc \in LoopPcs \ {"init_astral"}
    \/ Crashed(LoopPcs)
    \/ tick_steps # <<>>

\* C6: with an unknown city, a missing folder or a folder without image
\* files the process aborts before the control loop is entered: no iteration
\* begins, nothing is rendered and no per-tick set-wallpaper is run.
C6_ConfigErrorAbortsBeforeLoop ==
    ConfigurationError =>
        /\ ~LoopEntered
        /\ temp_file = <<>>
        /\ wallpaper[1] # "temp"

TickOrder ==
    <<"init_astral", "get_current_images", "blend_images",
      "update_wallpaper", "sleep">>

IsPrefix(s, t) == Len(s) <= Len(t) /\ s = SubSeq(t, 1, Len(s))

SetWallpaperEvents ==
    SelectSeq(startup_log, LAMBDA e : e.op = "update_wallpaper")

NondecreasingKeys(paths) ==
    \A i \in 1..(Len(paths) - 1) : SortKey(paths[i]) <= SortKey(paths[i + 1])

\* the startup side effects, for a folder of n >= 1 images and a command:
\* one set-wallpaper run, the first entry of the log, on the image at index
\* floor(n / 2) of the sorted sequence
InitialWallpaperSet ==
    /\ Len(SetWallpaperEvents) = 1
    /\ startup_log[1].op = "update_wallpaper"
    /\ Len(image_paths) = Len(ImageFiles)
    /\ NondecreasingKeys(image_paths)
    /\ \E i \in 0..(Len(ImageFiles) - 1) :
        /\ 2 * i <= Len(ImageFiles)
        /\ Len(ImageFiles) < 2 * i + 2
        /\ startup_log[1].path = PathJoin(image_paths[i + 1])

\* C8 as stated: once init_images has listed a folder of N >= 1 images,
\* a configured command has been run exactly once, on the image at index
\* floor(N/2) of the sorted sequence and before the images are opened; with
\* no command nothing is run at startup.
C8_InitialWallpaper ==
    (pc # "init_images" /\ folder.exists) =>
        /\ (command # "" /\ Len(ImageFiles) >= 1) => InitialWallpaperSet
        /\ (command = "") => Len(SetWallpaperEvents) = 0

\* C8 as amended: the same, for a folder of N >= 1 images each of whose
\* names holds at least one digit.
C8_InitialWallpaperNumbered ==
    (pc # "init_images" /\ folder.exists) =>
        /\ (command # "" /\ Len(ImageFiles) >= 1
                /\ \A i \in 1..Len(ImageFiles) : HasKey(ImageFiles[i])) =>
                InitialWallpaperSet
        /\ (command = "") => Len(SetWallpaperEvents) = 0

C8_Witness ==
    /\ pc = "init_astral"
    /\ command = "ok"
    /\ Len(image_paths) = 3
    /\ startup_log =
        <<[op |-> "update_wallpaper", path |-> PathJoin(image_paths[2])],
          [op |-> "open"]>>

\* C9: the sequence that init_images returns has a strictly increasing key
\* from each position to the next.
C9_StrictlyIncreasingKeys ==
    (pc \in LoopPcs) =>
        \A i \in 1..(Len(image_paths) - 1) :
            SortKey(image_paths[i]) < SortKey(image_paths[i + 1])

====
